---- MODULE Spec2Model ----
(***************************************************************************)
(* A state-machine model of src/main.rs: the Game resource, the entity    *)
(* world it issues commands to, the startup system setup_game and the two *)
(* per-frame systems tetromino_movement and tetromino_sleep_detection.    *)
(*                                                                         *)
(* Physics coordinates are f32 values that are multiples of 0.5; they are *)
(* kept here as integers scaled by 2 (every value in range is exact in    *)
(* f32).  Forces are whole numbers (MOVEMENT_FORCE is 20.0).              *)
(***************************************************************************)
EXTENDS Integers, Sequences, FiniteSets, TLC

\* ------------------------------------------------------------ constants
MOVEMENT_FORCE == 20

FLOOR_BLOCK_HEIGHT == 2

DEFAULT_N_LANES == 10

DEFAULT_N_ROWS == 20

\* --------------------------------------------------------------- bounds
\* Frames simulated from a drawn session.
MaxFrames == 3

\* Frames simulated of the app as main builds it.
MainFrames == 6

\* Blocks already in the world when a drawn session starts.
MaxBlocks == 2

\* Joint entities registered when a drawn session starts.
MaxJoints == 1

\* Board sizes drawn besides the default one: 1..MaxDim lanes by 1..MaxDim rows.
MaxDim == 2

\* Board cells the coordinate transform is tried on: -MaxCoord..MaxCoord each way.
MaxCoord == 3

VARIABLES
    n_lanes,        \* Game.n_lanes
    n_rows,         \* Game.n_rows
    block_color,    \* Game.block_color: "None" or "Some"
    blocks,         \* Game.current_tetromino_blocks: a set of entity ids
    joints,         \* Game.current_tetromino_joints: a sequence of entity ids
    camera,         \* Game.camera: 0 for None, else the entity id
    world,          \* the live entities: id -> components
    next_entity,    \* the next entity id the world hands out
    keys,           \* Input<KeyCode>: which of Left, Right is pressed
    systems,        \* the per-frame systems registered with the app
    pc,             \* the scheduler's position: startup, input, update, physics
    todo,           \* the systems of the update stage still to run this frame
    frame,          \* frames started so far
    last,           \* what the most recent system run did (observation only)
    piece           \* the blocks the latest spawn_tetromino call created
                    \* (observation only)

vars == <<n_lanes, n_rows, block_color, blocks, joints, camera, world,
          next_entity, keys, systems, pc, todo, frame, last, piece>>

game == <<n_lanes, n_rows, block_color, blocks, joints, camera>>

\* ------------------------------------------------------ helper operators
Range(s) == {s[i] : i \in DOMAIN s}

Max(S) == CHOOSE x \in S : \A y \in S : y <= x

Min(S) == CHOOSE x \in S : \A y \in S : x <= y

Abs(x) == IF x < 0 THEN -x ELSE x

BoolToInt(b) == IF b THEN 1 ELSE 0

\* ------------------------------------------------- coordinate transforms
\* 2 * floor_y(): -(n_rows as f32) * 0.5, doubled.
floor_y(rows) == -rows

\* 2 * left_edge_x(): -(n_lanes as f32) * 0.5, doubled.
left_edge_x(lanes) == -lanes

\* The body as written: the coordinate is returned unchanged.
translate_to_board_center_top(lanes, rows, coord) == <<coord[1], coord[2]>>

\* A variant without the half-cell offset that centres a cell.
board_to_physics_uncentred(lanes, rows, coord) ==
    <<left_edge_x(lanes) + 2 * coord[1], floor_y(rows) + 2 * coord[2]>>

\* A variant that takes y from the column.
board_to_physics_col_twice(lanes, rows, coord) ==
    <<left_edge_x(lanes) + 2 * coord[1] + 1, floor_y(rows) + 2 * coord[1] + 1>>

\* 2 * board_to_physics(): (left_edge_x + col + 0.5, floor_y + row + 0.5), doubled.
board_to_physics(lanes, rows, coord) ==
    <<left_edge_x(lanes) + 2 * coord[1] + 1, floor_y(rows) + 2 * coord[2] + 1>>

\* ----------------------------------------------------- tetromino catalog
TetrominoKind == {"I", "O", "T", "J", "L", "S", "Z"}

\* A variant whose last joint names a slot past the end of coords.
layout_joint_out_of_range(kind) ==
    [coords |-> << <<0, 0>>, <<1, 0>>, <<2, 0>>, <<1, -1>> >>,
     joints |-> << <<0, 1>>, <<1, 2>>, <<1, 4>> >>]

\* A variant whose second joint links the two end blocks of the row, which
\* are two cells apart.
layout_far_joint(kind) ==
    [coords |-> << <<0, 0>>, <<1, 0>>, <<2, 0>>, <<1, -1>> >>,
     joints |-> << <<0, 1>>, <<0, 2>>, <<1, 3>> >>]

\* coords[0..3] of the source are coords[1..4] here; joint indices stay 0-based.
layout(kind) ==
    [coords |-> << <<0, 0>>, <<1, 0>>, <<2, 0>>, <<1, -1>> >>,
     joints |-> << <<0, 1>>, <<1, 2>>, <<1, 3>> >>]

\* The joint loop that spawn_tetromino carries commented out: the displacement
\* from block i to block j, and the two anchors at +half and -half of it
\* (doubled here, so the anchors are the displacement and its negation).
joint_dir(lay, joint) ==
    <<lay.coords[joint[2] + 1][1] - lay.coords[joint[1] + 1][1],
      lay.coords[joint[2] + 1][2] - lay.coords[joint[1] + 1][2]>>

anchor_1(lay, joint) == joint_dir(lay, joint)

anchor_2(lay, joint) == <<-joint_dir(lay, joint)[1], -joint_dir(lay, joint)[2]>>

\* ------------------------------------------------------------- entities
CameraEntity == [kind |-> "camera", body |-> "none", pos |-> <<0, 0>>,
                 force |-> <<0, 0>>, sleeping |-> FALSE]

JointEntity == [kind |-> "joint", body |-> "none", pos |-> <<0, 0>>,
                force |-> <<0, 0>>, sleeping |-> FALSE]

\* The static floor body of setup_board, at (0, floor_y - FLOOR_BLOCK_HEIGHT * 0.5).
FloorEntity(rows) ==
    [kind |-> "floor", body |-> "static",
     pos |-> <<0, floor_y(rows) - FLOOR_BLOCK_HEIGHT>>,
     force |-> <<0, 0>>, sleeping |-> FALSE]

\* The dynamic body spawn_block builds: RigidBodyBundle defaults give a zero
\* force and an active (not sleeping) body.
BlockEntity(p) ==
    [kind |-> "block", body |-> "dynamic", pos |-> p,
     force |-> <<0, 0>>, sleeping |-> FALSE]

\* Query::get / get_mut succeed on an entity that is alive and has rigid-body
\* components.
HasBody(w, e) == e \in DOMAIN w /\ w[e].body # "none"

BlocksOf(w) == {e \in DOMAIN w : w[e].kind = "block"}

\* ------------------------------------------------------------- spawning
\* spawn_block: the world with one more block, whose id is `id`.
spawn_block(w, id, lanes, rows, kind, tetromino_coord) ==
    w @@ (id :> BlockEntity(board_to_physics(lanes, rows,
              translate_to_board_center_top(lanes, rows, tetromino_coord))))

\* spawn_tetromino: one block, for coords[0]; its id is bound to a local that is
\* never used, so the Game's registry fields are returned as they were.
spawn_tetromino(w, id, lanes, rows, g_blocks, g_joints, kind) ==
    LET lay == layout(kind)
        block_entity == id
    IN  [world |-> spawn_block(w, block_entity, lanes, rows, kind, lay.coords[1]),
         next_entity |-> id + 1,
         blocks |-> g_blocks,
         joints |-> g_joints,
         spawned |-> {block_entity}]

\* setup_board: the world with the floor, whose id is `id`.
setup_board(w, id, rows) == w @@ (id :> FloorEntity(rows))

\* ------------------------------------------------------- input controller
\* A variant with the two keys exchanged.
movement_of_swapped(k) == BoolToInt(k.left) - BoolToInt(k.right)

\* input.pressed(Right) as i8 - input.pressed(Left) as i8
movement_of(k) == BoolToInt(k.right) - BoolToInt(k.left)

\* Vec2::new(movement as f32 * MOVEMENT_FORCE, 0.0)
force_of(movement) == <<movement * MOVEMENT_FORCE, 0>>

\* A variant without the `movement != 0` test: the force is written every frame.
movement_world_unguarded(w, g_blocks, k) ==
    [e \in DOMAIN w |->
        IF e \in g_blocks /\ HasBody(w, e)
        THEN [w[e] EXCEPT !.force = force_of(movement_of(k))]
        ELSE w[e]]

\* A variant that gives up when a registered id is not found (unwrap or `?`
\* in place of `if let Ok`): no force is written that frame.
movement_world_stops_at_missing(w, g_blocks, k) ==
    LET movement == movement_of(k)
    IN  [e \in DOMAIN w |->
            IF /\ e \in g_blocks
               /\ movement # 0
               /\ \A b \in g_blocks : HasBody(w, b)
            THEN [w[e] EXCEPT !.force = force_of(movement)]
            ELSE w[e]]

\* A variant that iterates the query instead of the registry: every body is
\* written.
movement_world_every_body(w, g_blocks, k) ==
    LET movement == movement_of(k)
    IN  [e \in DOMAIN w |->
            IF HasBody(w, e) /\ movement # 0
            THEN [w[e] EXCEPT !.force = force_of(movement)]
            ELSE w[e]]

\* The loop of tetromino_movement over the registry: the world it leaves.
movement_world(w, g_blocks, k) ==
    LET movement == movement_of(k)
    IN  [e \in DOMAIN w |->
            IF e \in g_blocks /\ HasBody(w, e) /\ movement # 0
            THEN [w[e] EXCEPT !.force = force_of(movement)]
            ELSE w[e]]

\* ----------------------------------------------------------- rest detector
\* A variant ending in unwrap_or(true).
block_sleeping_or_true(w, e) == IF HasBody(w, e) THEN w[e].sleeping ELSE TRUE

\* block_query.get(e).ok().map(|(_, a, _)| a.sleeping).unwrap_or(false)
block_sleeping(w, e) == IF HasBody(w, e) THEN w[e].sleeping ELSE FALSE

\* A variant with any() in place of all().
any_block_sleeping(w, g_blocks) == \E e \in g_blocks : block_sleeping(w, e)

\* game.current_tetromino_blocks.iter().all(...)
all_blocks_sleeping(w, g_blocks) == \A e \in g_blocks : block_sleeping(w, e)

\* A variant that also despawns every block entity of the world.
despawn_joints_and_blocks(w, g_joints) ==
    [e \in DOMAIN w \ (Range(g_joints) \cup BlocksOf(w)) |-> w[e]]

\* commands.entity(joint).despawn() for every joint of the list.
despawn_joints(w, g_joints) ==
    [e \in DOMAIN w \ Range(g_joints) |-> w[e]]

\* ------------------------------------------------------------ scheduling
NoRun(sys) == [sys |-> sys, spawns |-> 0, spawned |-> {}]

\* The frames the model follows a session for.
FrameBound == IF "detection" \in systems THEN MaxFrames ELSE MainFrames

\* After a system of the update stage has run: the stage ends when none is left.
AfterSystem(sys) ==
    /\ todo' = todo \ {sys}
    /\ pc' = IF todo \ {sys} = {} THEN "physics" ELSE "update"

\* -------------------------------------------------------------- actions
\* The startup system.
SetupGame ==
    /\ pc = "startup"
    /\ \E kind \in TetrominoKind :
        LET cam == next_entity
            w1 == world @@ (cam :> CameraEntity)
            w2 == setup_board(w1, cam + 1, n_rows)
            s  == spawn_tetromino(w2, cam + 2, n_lanes, n_rows, blocks, joints, kind)
        IN  /\ block_color' = "Some"
            /\ camera' = cam
            /\ world' = s.world
            /\ next_entity' = s.next_entity
            /\ blocks' = s.blocks
            /\ joints' = s.joints
            /\ last' = [sys |-> "setup", spawns |-> 1, spawned |-> s.spawned]
            /\ piece' = s.spawned
    /\ pc' = "input"
    /\ UNCHANGED <<n_lanes, n_rows, keys, systems, todo, frame>>

\* The engine's input stage: a new frame starts with some keys held.
SampleInput ==
    /\ pc = "input"
    /\ frame < FrameBound
    /\ \E l \in BOOLEAN, r \in BOOLEAN : keys' = [left |-> l, right |-> r]
    /\ frame' = frame + 1
    /\ todo' = systems
    /\ pc' = IF systems = {} THEN "physics" ELSE "update"
    /\ last' = NoRun("input")
    /\ UNCHANGED <<game, world, next_entity, systems, piece>>

TetrominoMovement ==
    /\ pc = "update"
    /\ "movement" \in todo
    /\ world' = movement_world(world, blocks, keys)
    /\ last' = NoRun("movement")
    /\ AfterSystem("movement")
    /\ UNCHANGED <<game, next_entity, keys, systems, frame, piece>>

\* A variant that puts the Game back to Game::default() when a piece rests.
TetrominoSleepDetectionResetsGame ==
    /\ pc = "update"
    /\ "detection" \in todo
    /\ IF all_blocks_sleeping(world, blocks)
       THEN \E kind \in TetrominoKind :
              LET s == spawn_tetromino(despawn_joints(world, joints), next_entity,
                                       DEFAULT_N_LANES, DEFAULT_N_ROWS, {}, <<>>, kind)
              IN  /\ world' = s.world
                  /\ next_entity' = s.next_entity
                  /\ blocks' = s.blocks
                  /\ joints' = s.joints
                  /\ n_lanes' = DEFAULT_N_LANES
                  /\ n_rows' = DEFAULT_N_ROWS
                  /\ block_color' = "None"
                  /\ camera' = 0
                  /\ last' = [sys |-> "detection", spawns |-> 1,
                              spawned |-> s.spawned]
                  /\ piece' = s.spawned
       ELSE /\ last' = NoRun("detection")
            /\ UNCHANGED <<world, next_entity, game, piece>>
    /\ AfterSystem("detection")
    /\ UNCHANGED <<keys, systems, frame>>

TetrominoSleepDetection ==
    /\ pc = "update"
    /\ "detection" \in todo
    /\ IF all_blocks_sleeping(world, blocks)
       THEN \E kind \in TetrominoKind :
              LET s == spawn_tetromino(despawn_joints(world, joints), next_entity,
                                       n_lanes, n_rows, blocks, joints, kind)
              IN  /\ world' = s.world
                  /\ next_entity' = s.next_entity
                  /\ blocks' = s.blocks
                  /\ joints' = s.joints
                  /\ last' = [sys |-> "detection", spawns |-> 1,
                              spawned |-> s.spawned]
                  /\ piece' = s.spawned
       ELSE /\ last' = NoRun("detection")
            /\ UNCHANGED <<world, next_entity, blocks, joints, piece>>
    /\ AfterSystem("detection")
    /\ UNCHANGED <<n_lanes, n_rows, block_color, camera, keys, systems, frame>>

\* The physics plugin's step: it decides which dynamic bodies sleep.
PhysicsStep ==
    /\ pc = "physics"
    /\ \E S \in SUBSET BlocksOf(world) :
          world' = [e \in DOMAIN world |->
                      IF world[e].kind = "block"
                      THEN [world[e] EXCEPT !.sleeping = (e \in S)]
                      ELSE world[e]]
    /\ pc' = "input"
    /\ last' = NoRun("physics")
    /\ UNCHANGED <<game, next_entity, keys, systems, todo, frame, piece>>

\* ------------------------------------------------------- specifications
\* The app as main builds it: Game::default, the startup system, and
\* tetromino_movement as the only per-frame system.
InitMain ==
    /\ n_lanes = DEFAULT_N_LANES
    /\ n_rows = DEFAULT_N_ROWS
    /\ block_color = "None"
    /\ blocks = {}
    /\ joints = <<>>
    /\ camera = 0
    /\ world = <<>>
    /\ next_entity = 1
    /\ keys = [left |-> FALSE, right |-> FALSE]
    /\ systems = {"movement"}
    /\ pc = "startup"
    /\ todo = {}
    /\ frame = 0
    /\ last = NoRun("none")
    /\ piece = {}

NextMain == SetupGame \/ SampleInput \/ TetrominoMovement \/ PhysicsStep

SpecMain == InitMain /\ [][NextMain]_vars

\* The board sizes a session is configured with: the default and small ones.
BoardSizes ==
    {<<DEFAULT_N_LANES, DEFAULT_N_ROWS>>} \cup ((1..MaxDim) \X (1..MaxDim))

\* A session of any board size, with the startup system and both per-frame
\* systems scheduled every frame.
InitBoard ==
    /\ \E size \in BoardSizes : n_lanes = size[1] /\ n_rows = size[2]
    /\ block_color = "None"
    /\ blocks = {}
    /\ joints = <<>>
    /\ camera = 0
    /\ world = <<>>
    /\ next_entity = 1
    /\ keys = [left |-> FALSE, right |-> FALSE]
    /\ systems = {"movement", "detection"}
    /\ pc = "startup"
    /\ todo = {}
    /\ frame = 0
    /\ last = NoRun("none")
    /\ piece = {}

NextBoard ==
    \/ SetupGame
    \/ SampleInput
    \/ TetrominoMovement
    \/ TetrominoSleepDetection
    \/ PhysicsStep

SpecBoard == InitBoard /\ [][NextBoard]_vars

\* The two per-frame systems run on a session drawn from a bounded set: the
\* world holds the camera (1), the floor (2) and nb blocks (3 .. 2+nb); id 3+nb
\* was handed out and is no longer alive; nj joints follow.  The registry is any
\* set of those block ids and the dead id, the joint list holds the nj joints.
Init ==
    \E nb \in 0..MaxBlocks, nj \in 0..MaxJoints :
        LET block_ids == 3..(2 + nb)
            dead_id == 3 + nb
            joint_ids == (4 + nb)..(3 + nb + nj)
        IN  /\ n_lanes = DEFAULT_N_LANES
            /\ n_rows = DEFAULT_N_ROWS
            /\ block_color = "Some"
            /\ blocks \in SUBSET (block_ids \cup {dead_id})
            /\ joints = [i \in 1..nj |-> 3 + nb + i]
            /\ camera = 1
            /\ world = [e \in {1, 2} \cup block_ids \cup joint_ids |->
                          IF e = 1 THEN CameraEntity
                          ELSE IF e = 2 THEN FloorEntity(DEFAULT_N_ROWS)
                          ELSE IF e \in block_ids
                          THEN BlockEntity(board_to_physics(DEFAULT_N_LANES,
                                              DEFAULT_N_ROWS, <<e - 3, 0>>))
                          ELSE JointEntity]
            /\ next_entity = 4 + nb + nj
            /\ keys = [left |-> FALSE, right |-> FALSE]
            /\ systems = {"movement", "detection"}
            /\ pc = "input"
            /\ todo = {}
            /\ frame = 0
            /\ last = NoRun("none")
            /\ piece = blocks

Next ==
    SampleInput \/ TetrominoMovement \/ TetrominoSleepDetection \/ PhysicsStep

Spec == Init /\ [][Next]_vars

\* ------------------------------------------------------------- the claims
\* A step that is one run of the named system.
RunOf(sys) == last'.sys = sys

\* The registered ids that Query::get finds.
Present == {e \in blocks : HasBody(world, e)}

\* C1: in a frame in which current_tetromino_blocks is empty, one run of
\* tetromino_sleep_detection despawns nothing, calls spawn_tetromino zero
\* times and creates no entity.
C1_EmptyRegistryNeverFires ==
    [][(RunOf("detection") /\ blocks = {})
         => (last'.spawns = 0 /\ world' = world /\ next_entity' = next_entity)]_vars

\* C2: with a non-empty registry, one run of tetromino_sleep_detection calls
\* spawn_tetromino exactly once if every registered block is found sleeping and
\* not at all if some registered block is not; never more than once.
C2_SpawnsOnceIffAllSleeping ==
    [][(RunOf("detection") /\ blocks # {})
         => /\ last'.spawns =
                 (IF \A e \in blocks : e \in DOMAIN world /\ world[e].sleeping
                  THEN 1 ELSE 0)
            /\ Cardinality(DOMAIN world' \ DOMAIN world) = last'.spawns
            /\ last'.spawns <= 1]_vars

C2_Witness ==
    /\ last.sys = "detection"
    /\ last.spawns = 1
    /\ Cardinality(blocks) >= 2
    /\ \A e \in blocks : e \in DOMAIN world /\ world[e].sleeping

\* C3: after startup the registry is non-empty and holds exactly the blocks of
\* the one active piece, and no frame's update stage ends with the active piece
\* wholly asleep: a respawn has replaced it by a fresh, awake piece.
C3_OneActivePieceAndRespawn ==
    /\ pc # "startup" => (blocks # {} /\ blocks = piece)
    /\ pc = "physics" =>
          ~(piece # {} /\ \A e \in piece : e \in DOMAIN world /\ world[e].sleeping)

\* C4: after a call of spawn_tetromino the registry is exactly the set of
\* block entities that call created.
C4_RegistryReplacedBySpawn ==
    last.spawns > 0 => blocks = last.spawned

\* C5: when the rest transition fires for a registered piece, every joint of
\* the joint list is despawned and none of those joint ids is left in the list
\* afterwards.
C5_JointsDespawnedAndCleared ==
    [][(RunOf("detection") /\ blocks # {} /\ last'.spawns > 0)
         => \A j \in Range(joints) :
               j \notin DOMAIN world' /\ j \notin Range(joints')]_vars

\* C6: one run of tetromino_movement with exactly one of Left, Right held sets
\* the force of every registered block found in the world to (+F, 0) for Right
\* and (-F, 0) for Left; any force a run writes is (+F, 0) or (-F, 0).
C6_DirectionalForce ==
    [][RunOf("movement")
         => /\ (keys.right /\ ~keys.left) =>
                 \A e \in Present : world'[e].force = <<MOVEMENT_FORCE, 0>>
            /\ (keys.left /\ ~keys.right) =>
                 \A e \in Present : world'[e].force = <<-MOVEMENT_FORCE, 0>>
            /\ \A e \in DOMAIN world :
                 world'[e].force # world[e].force =>
                    /\ world'[e].force[2] = 0
                    /\ Abs(world'[e].force[1]) = MOVEMENT_FORCE]_vars

C6_Witness ==
    /\ last.sys = "movement"
    /\ keys.right /\ ~keys.left
    /\ Cardinality(Present) >= 2
    /\ \A e \in Present : world[e].force = <<MOVEMENT_FORCE, 0>>

\* C7: a run of tetromino_movement with both or neither of Left, Right held
\* changes no entity: a force set in an earlier frame stays as it was.
C7_ZeroDirectionKeepsForces ==
    [][(RunOf("movement") /\ keys.left = keys.right) => world' = world]_vars

C7_Witness ==
    /\ last.sys = "movement"
    /\ keys.left /\ keys.right
    /\ \E e \in Present : world[e].force = <<-MOVEMENT_FORCE, 0>>

\* C8: when some registered id is absent from the world, a run of
\* tetromino_sleep_detection does not fire, whatever the other blocks report.
C8_MissingBlockBlocksRest ==
    [][(RunOf("detection") /\ \E e \in blocks : e \notin DOMAIN world)
         => (last'.spawns = 0 /\ world' = world /\ UNCHANGED game)]_vars

C8_Witness ==
    /\ last.sys = "detection"
    /\ last.spawns = 0
    /\ \E e \in blocks : e \notin DOMAIN world
    /\ Present # {}
    /\ \A e \in Present : world[e].sleeping

\* C9: a call of spawn_tetromino creates exactly 4 dynamic blocks, one per
\* coordinate c of the layout, at board_to_physics(translate_to_board_center_top(c)).
C9_FourBlocksPerPiece ==
    last.spawns > 0 =>
        /\ Cardinality(last.spawned) = 4
        /\ \A kind \in TetrominoKind :
             \A i \in 1..4 :
                \E e \in last.spawned :
                   /\ e \in DOMAIN world
                   /\ world[e].body = "dynamic"
                   /\ world[e].pos =
                        board_to_physics(n_lanes, n_rows,
                            translate_to_board_center_top(n_lanes, n_rows,
                                layout(kind).coords[i]))

\* C10: for the board's size and every kind, translate_to_board_center_top
\* takes the layout's cells to cells whose topmost row is at least n_rows - 1,
\* whose columns lie in [0, n_lanes) and whose bounding box is centred on
\* n_lanes / 2 to within one cell.
C10_CenteredAtTop ==
    last.spawns > 0 =>
        \A kind \in TetrominoKind :
            LET cells == {translate_to_board_center_top(n_lanes, n_rows,
                              layout(kind).coords[i]) : i \in 1..4}
                cols == {c[1] : c \in cells}
                rows == {c[2] : c \in cells}
            IN  /\ Max(rows) >= n_rows - 1
                /\ \A c \in cols : 0 <= c /\ c < n_lanes
                /\ Abs((Min(cols) + Max(cols) + 1) - n_lanes) <= 2

\* C11: there are 7 kinds, and for each of them layout(), which every
\* spawn_tetromino call reads, gives exactly 4 coordinates and joints whose two
\* indices both lie in [0, 4).
C11_LayoutWellFormed ==
    last.spawns > 0 =>
    /\ Cardinality(TetrominoKind) = 7
    /\ \A kind \in TetrominoKind :
         /\ Len(layout(kind).coords) = 4
         /\ \A n \in DOMAIN layout(kind).joints :
               LET joint == layout(kind).joints[n]
               IN  /\ 0 <= joint[1] /\ joint[1] < 4
                   /\ 0 <= joint[2] /\ joint[2] < 4

\* A piece has been spawned from a layout: its block sits where the layout's
\* first coordinate is taken to.
C11_Witness ==
    /\ last.sys = "setup"
    /\ last.spawns = 1
    /\ \E kind \in TetrominoKind, e \in last.spawned :
          /\ Len(layout(kind).joints) = 3
          /\ world[e].pos = board_to_physics(n_lanes, n_rows,
                 translate_to_board_center_top(n_lanes, n_rows,
                     layout(kind).coords[1]))

\* The board cells the transform is tried on.
Cells == ((-MaxCoord)..MaxCoord) \X ((-MaxCoord)..MaxCoord)

\* C12: for the session's board size L x R (both positive) and every cell
\* (col, row), board_to_physics is (-L/2 + col + 0.5, -R/2 + row + 0.5), with
\* floor_y = -R/2 and left_edge_x = -L/2; all values doubled.
C12_BoardToPhysicsFormula ==
    /\ n_lanes > 0 /\ n_rows > 0
    /\ floor_y(n_rows) = -n_rows
    /\ left_edge_x(n_lanes) = -n_lanes
    /\ \A c \in Cells :
          board_to_physics(n_lanes, n_rows, c)
            = <<-n_lanes + 2 * c[1] + 1, -n_rows + 2 * c[2] + 1>>
    /\ board_to_physics(n_lanes, n_rows, <<0, 0>>) = <<-n_lanes + 1, -n_rows + 1>>

\* A session of a non-default board size has spawned a block at cell (0, 0).
C12_Witness ==
    /\ last.sys = "setup"
    /\ n_lanes = 2 /\ n_rows = 1
    /\ \E e \in last.spawned : world[e].pos = <<-1, 0>>

\* The inverse map (x, y) -> (x + L/2 - 0.5, y + R/2 - 0.5) on doubled physics
\* coordinates; the result is a cell only if both sums are even.
physics_to_board(lanes, rows, p) ==
    <<(p[1] + lanes - 1) \div 2, (p[2] + rows - 1) \div 2>>

\* C13: for the session's board size and every cell, the inverse map takes
\* board_to_physics of the cell back to the cell exactly, and two different
\* cells never have the same physics position.
C13_BoardToPhysicsRoundTrip ==
    /\ \A c \in Cells :
          LET p == board_to_physics(n_lanes, n_rows, c)
          IN  /\ (p[1] + n_lanes - 1) % 2 = 0
              /\ (p[2] + n_rows - 1) % 2 = 0
              /\ physics_to_board(n_lanes, n_rows, p) = c
    /\ \A c1 \in Cells, c2 \in Cells :
          c1 # c2 => board_to_physics(n_lanes, n_rows, c1)
                       # board_to_physics(n_lanes, n_rows, c2)

\* The position a spawned block was given maps back to the cell it was
\* spawned for, on a board with an odd number of lanes and of rows.
C13_Witness ==
    /\ last.spawns = 1
    /\ n_lanes = 1 /\ n_rows = 1
    /\ \E e \in last.spawned :
          physics_to_board(n_lanes, n_rows, world[e].pos) = <<0, 0>>

\* C14: in every state after startup the registry describes exactly the one
\* active piece and only live entities: every id in current_tetromino_blocks
\* and in current_tetromino_joints is alive in the world, and the registered
\* blocks are those of the most recently spawned piece.
C14_RegistryIsTheLivePiece ==
    /\ \A e \in blocks \cup Range(joints) : e \in DOMAIN world
    /\ pc # "startup" =>
          /\ piece # {}
          /\ blocks = piece
          /\ \A e \in piece : e \in DOMAIN world

\* C15: no step changes n_lanes or n_rows; block_color and camera are written
\* only by setup_game, which runs only at startup, and startup never comes back.
C15_BoardAndHandlesFixed ==
    [][/\ n_lanes' = n_lanes
       /\ n_rows' = n_rows
       /\ (block_color' # block_color \/ camera' # camera)
             => (pc = "startup" /\ last'.sys = "setup")
       /\ pc # "startup" => pc' # "startup"]_vars

\* A session of a non-default board size in which setup_game, both per-frame
\* systems and a respawn have run, with the size and the handles as set.
C15_Witness ==
    /\ last.sys = "detection"
    /\ last.spawns = 1
    /\ frame >= 2
    /\ n_lanes = 2 /\ n_rows = 1
    /\ block_color = "Some"
    /\ camera = 1

\* C16: in a run of tetromino_movement with a non-zero direction, a registered
\* id that is not found in the world is skipped: the run completes, creates and
\* removes no entity, and every registered block that is found has its force
\* set in that same run.
C16_MissingBlockSkipped ==
    [][(/\ RunOf("movement")
        /\ keys.left # keys.right
        /\ \E e \in blocks : ~HasBody(world, e))
         => /\ DOMAIN world' = DOMAIN world
            /\ "movement" \notin todo'
            /\ \A e \in Present :
                  world'[e].force =
                     <<(IF keys.right THEN 1 ELSE -1) * MOVEMENT_FORCE, 0>>]_vars

C16_Witness ==
    /\ last.sys = "movement"
    /\ keys.left /\ ~keys.right
    /\ \E e \in blocks : e \notin DOMAIN world
    /\ Present # {}
    /\ \A e \in Present : world[e].force = <<-MOVEMENT_FORCE, 0>>

\* C17: a run of tetromino_movement leaves every entity outside the registry
\* as it was (the floor and the blocks of earlier pieces keep their force),
\* keeps the set of entities, and changes no field of the Game.
C17_OnlyRegisteredBlocksWritten ==
    [][RunOf("movement")
         => /\ DOMAIN world' = DOMAIN world
            /\ \A e \in DOMAIN world \ blocks : world'[e] = world[e]
            /\ UNCHANGED game
            /\ next_entity' = next_entity]_vars

\* A run that wrote a registered block while the floor and an unregistered
\* block, both bodies the force query finds, kept a zero force.
C17_Witness ==
    /\ last.sys = "movement"
    /\ \E e \in Present : world[e].force = <<MOVEMENT_FORCE, 0>>
    /\ \E e \in BlocksOf(world) \ blocks : world[e].force = <<0, 0>>
    /\ \E e \in DOMAIN world :
          world[e].kind = "floor" /\ world[e].force = <<0, 0>>

\* The blocks one more joint away from the blocks in S.
JointStep(lay, S) ==
    S \cup {b \in 0..3 : \E n \in DOMAIN lay.joints :
                \/ lay.joints[n][1] \in S /\ lay.joints[n][2] = b
                \/ lay.joints[n][2] \in S /\ lay.joints[n][1] = b}

\* C18: in every layout a piece is spawned from, each joint (i, j) has i # j
\* and links two cells at Manhattan distance 1, its two anchors sum to zero
\* and are +half and -half of that unit displacement, and the 4 blocks are
\* connected by the joints.
C18_JointsLinkAdjacentBlocks ==
    last.spawns > 0 =>
        \A kind \in TetrominoKind :
            LET lay == layout(kind)
            IN  /\ \A n \in DOMAIN lay.joints :
                      LET joint == lay.joints[n]
                          d == joint_dir(lay, joint)
                      IN  /\ joint[1] # joint[2]
                          /\ Abs(d[1]) + Abs(d[2]) = 1
                          /\ anchor_1(lay, joint) = d
                          /\ anchor_1(lay, joint)[1] + anchor_2(lay, joint)[1] = 0
                          /\ anchor_1(lay, joint)[2] + anchor_2(lay, joint)[2] = 0
                /\ JointStep(lay, JointStep(lay, JointStep(lay, {0}))) = 0..3

\* A respawn has read a layout whose joints reach all 4 blocks.
C18_Witness ==
    /\ last.sys = "detection"
    /\ last.spawns = 1
    /\ \E kind \in TetrominoKind :
          /\ Len(layout(kind).joints) = 3
          /\ JointStep(layout(kind), JointStep(layout(kind), {0})) = 0..3

\* C19: no step removes a block entity or the floor; the block entities a step
\* adds are exactly those of the one spawn_tetromino call it makes, if any;
\* the only entities a step removes are joints of the joint list, removed by
\* the rest transition.
C19_BlocksNeverDespawned ==
    [][/\ BlocksOf(world) \subseteq BlocksOf(world')
       /\ BlocksOf(world') \ BlocksOf(world) = last'.spawned
       /\ last'.spawns <= 1
       /\ last'.spawns = 0 => last'.spawned = {}
       /\ \A e \in DOMAIN world :
             world[e].kind = "floor" => e \in DOMAIN world'
       /\ \A e \in DOMAIN world \ DOMAIN world' :
             /\ world[e].kind = "joint"
             /\ e \in Range(joints)
             /\ RunOf("detection") /\ last'.spawns = 1]_vars

\* A rest transition of a registered piece: its blocks and the floor are still
\* in the world, its joints are gone, one new block was added.
C19_Witness ==
    /\ last.sys = "detection"
    /\ last.spawns = 1
    /\ Cardinality(blocks) >= 2
    /\ blocks \subseteq BlocksOf(world)
    /\ joints # <<>>
    /\ Range(joints) \cap DOMAIN world = {}
    /\ Cardinality(last.spawned) = 1
    /\ last.spawned \subseteq BlocksOf(world) \ blocks
    /\ \E e \in DOMAIN world : world[e].kind = "floor"

====
